---- MODULE Spec2Model ----
(***************************************************************************)
(* Model of web/service/tgbot.go: the Telegram bot session (Start, Stop,   *)
(* the update loop and its handler goroutines), the admin check, the cron  *)
(* job with the daily report, and the Notify* broadcasts.                  *)
(*                                                                         *)
(* Strings whose content the code inspects (the chat id list) are          *)
(* sequences of one-character strings, so that strings.Split and           *)
(* strconv.ParseInt are computed, not assumed.                             *)
(***************************************************************************)
EXTENDS Integers, Sequences, FiniteSets, TLC

\* ------------------------------------------------------------------ bounds

\* Longest chat id list drawn character by character (SpecAuth).
MaxLen == 4
\* Start() calls made over the session's life.
MaxStarts == 2
\* Stop() calls made over the session's life.
MaxStops == 2
\* Updates held at once by the update channels and the handler goroutines.
MaxUpdates == 2

\* ------------------------------------------------------------ pure helpers

\* The nil handle; a handle is named by the Start() call that made it.
Nil == 0

Digits == {"0", "1", "2", "3", "4", "5", "6", "7", "8", "9"}

DigitVal(c) ==
    CASE c = "0" -> 0 [] c = "1" -> 1 [] c = "2" -> 2 [] c = "3" -> 3
      [] c = "4" -> 4 [] c = "5" -> 5 [] c = "6" -> 6 [] c = "7" -> 7
      [] c = "8" -> 8 [] c = "9" -> 9

\* strings.Split(s, ","): the substrings between the separators; one empty
\* substring for the empty string.
RECURSIVE SplitAcc(_, _, _, _)
SplitAcc(s, i, cur, acc) ==
    IF i > Len(s) THEN Append(acc, cur)
    ELSE IF s[i] = "," THEN SplitAcc(s, i + 1, <<>>, Append(acc, cur))
    ELSE SplitAcc(s, i + 1, Append(cur, s[i]), acc)

Split(s) == SplitAcc(s, 1, <<>>, <<>>)

\* The magnitude of a run of decimal digits.
RECURSIVE DecVal(_, _, _)
DecVal(s, i, acc) ==
    IF i > Len(s) THEN acc ELSE DecVal(s, i + 1, acc * 10 + DigitVal(s[i]))

\* strconv.ParseInt(s, 10, 64): an optional sign, then one or more decimal
\* digits and nothing else.  The lists drawn here hold far fewer than 19
\* digits, so the range error of a 64-bit result cannot occur.
ParseInt(s) ==
    IF Len(s) = 0 THEN [err |-> TRUE, val |-> 0]
    ELSE LET signed == s[1] \in {"+", "-"}
             body   == IF signed THEN Tail(s) ELSE s
         IN  IF Len(body) = 0 \/ \E i \in 1..Len(body) : body[i] \notin Digits
             THEN [err |-> TRUE, val |-> 0]
             ELSE [err |-> FALSE,
                   val |-> IF s[1] = "-" THEN 0 - DecVal(body, 1, 0)
                           ELSE DecVal(body, 1, 0)]

\* A variant of the admin check that compares the text of the entry, so that
\* "+1" or "01" do not name chat 1 and nothing unparsable is skipped.
RECURSIVE checkAdminPrefixFrom(_, _, _)
checkAdminPrefixFrom(toks, i, chatID) ==
    IF i > Len(toks) THEN FALSE
    ELSE LET r == ParseInt(toks[i])
         IN  IF r.err THEN FALSE
             ELSE IF r.val = chatID THEN TRUE
             ELSE checkAdminPrefixFrom(toks, i + 1, chatID)

checkAdminStopsAtMalformed(chatIDs, chatID) ==
    checkAdminPrefixFrom(Split(chatIDs), 1, chatID)

\* checkAdmin: the loop over the split list, with its two skips and its
\* early return.
RECURSIVE checkAdminFrom(_, _, _)
checkAdminFrom(toks, i, chatID) ==
    IF i > Len(toks) THEN FALSE
    ELSE IF toks[i] = <<>> THEN checkAdminFrom(toks, i + 1, chatID)
    ELSE LET r == ParseInt(toks[i])
         IN  IF ~r.err /\ r.val = chatID THEN TRUE
             ELSE checkAdminFrom(toks, i + 1, chatID)

checkAdmin(chatIDs, chatID) == checkAdminFrom(Split(chatIDs), 1, chatID)


\* ------------------------------------------------------------------ state

\* The Start() calls and the Stop() calls made on the singleton session.
Starts == 1..MaxStarts
Stops  == 1..MaxStops

\* Chat id lists the settings may hold: "2,a,,1" and "".
ListMixed   == <<"2", ",", "a", ",", ",", "1">>
ListEmpty   == <<>>
ConfigLists == {ListMixed, ListEmpty}

\* Schedule expressions, as their fields: "" (unset) and "0 8 * * *".
RuntimeUnset == <<>>
RuntimeDaily == <<"0", "8", "*", "*", "*">>
RuntimeSpecs == {RuntimeUnset, RuntimeDaily}

VARIABLES
    enabled,     \* setting: GetTgbotEnabled()
    chatIdsCfg,  \* setting: GetTgBotChatId(), a string
    runtimeCfg,  \* setting: GetTgbotRuntime(), the fields of the expression
    bot,         \* t.bot: Nil, or the handle made by Start() call s
    shutdown,    \* per handle: StopReceivingUpdates() was called on it
    stopping,    \* t.stopping
    cron,        \* t.cron: [running, entries]
    cronId,      \* t.cronId
    menuSet,     \* the command menu is registered with the gateway
    startPc,     \* per Start() call: its position
    polled,      \* per Start() call: the handle its update channel polls
    chan,        \* per Start() call: the updates buffered in its channel
    cronPc,      \* per Start() call: the position of its startCron goroutine
    cronLocal,   \* per Start() call: startCron's local id
    stopPc,      \* per Stop() call: its position
    tasks,       \* the handler goroutines alive, in dispatch order
    bcast,       \* the broadcast call under way: its kind, its send attempts
    auth,        \* the checkAdmin call under way: its chat id and its result
    panicked     \* the function that panicked ("" for none): the process is gone

vars == <<enabled, chatIdsCfg, runtimeCfg, bot, shutdown, stopping, cron,
          cronId, menuSet, startPc, polled, chan, cronPc,
          cronLocal, stopPc, tasks, bcast, auth, panicked>>

settingVars == <<enabled, chatIdsCfg, runtimeCfg>>
startVars   == <<startPc, polled, chan>>
cronVars    == <<cron, cronId, cronPc, cronLocal>>

NoBroadcast == [kind |-> "none", queryErr |-> FALSE, attempts |-> <<>>]
NoAuth      == [chat |-> 0, called |-> FALSE, result |-> FALSE]

\* GetTgbot: the session as constructed, before any call.
InitSession ==
    /\ bot = Nil
    /\ shutdown = [s \in Starts |-> FALSE]
    /\ stopping = FALSE
    /\ cron = [running |-> FALSE, entries |-> 0]
    /\ cronId = 0
    /\ menuSet = FALSE
    /\ startPc = [s \in Starts |-> "ready"]
    /\ polled = [s \in Starts |-> Nil]
    /\ chan = [s \in Starts |-> <<>>]
    /\ cronPc = [s \in Starts |-> "none"]
    /\ cronLocal = [s \in Starts |-> 0]
    /\ stopPc = [k \in Stops |-> "ready"]
    /\ tasks = <<>>
    /\ bcast = NoBroadcast
    /\ auth = NoAuth
    /\ panicked = ""

\* -------------------------------------------------------------- lifecycle

\* The process runs, and no broadcast, admin check or handler is under way:
\* each runs from its first read to its last send before anything else
\* moves, and is on record until it returns.
Live ==
    /\ panicked = ""
    /\ bcast = NoBroadcast
    /\ auth = NoAuth
    /\ \A i \in 1..Len(tasks) : tasks[i].state = "spawned"

\* Start() calls are numbered in the order they are made, and may overlap.
MayBegin(pc, c) ==
    pc[c] = "ready" /\ (IF c = 1 THEN TRUE ELSE pc[c - 1] # "ready")

\* Stop() calls are made one after the other, from any state of the rest.
MayFollow(pc, c) ==
    pc[c] = "ready" /\ (IF c = 1 THEN TRUE ELSE pc[c - 1] = "returned")

\* Start, line 53: the enabled check.
StartEnabledCheck(s) ==
    /\ Live
    /\ MayBegin(startPc, s)
    /\ startPc' = [startPc EXCEPT ![s] = IF enabled THEN "init" ELSE "returned"]
    /\ UNCHANGED <<settingVars, bot, shutdown, stopping, cronVars, menuSet,
                   polled, chan, stopPc, tasks, bcast, auth, panicked>>

\* Lines 59-66 with the handle stored whatever NewBotAPI returned.
StartNewBotAPIStoresAnyway(s) ==
    /\ Live
    /\ startPc[s] = "init"
    /\ bot' = s
    /\ \E ok \in BOOLEAN :
         startPc' = [startPc EXCEPT ![s] = IF ok THEN "menu" ELSE "returned"]
    /\ UNCHANGED <<settingVars, shutdown, stopping, cronVars, menuSet,
                   polled, chan, stopPc, tasks, bcast, auth, panicked>>

\* Start, lines 59-66: NewBotAPI authenticates; on success the handle is stored.
StartNewBotAPI(s) ==
    /\ Live
    /\ startPc[s] = "init"
    /\ \E ok \in BOOLEAN :
         IF ok
         THEN /\ bot' = s
              /\ startPc' = [startPc EXCEPT ![s] = "menu"]
         ELSE /\ bot' = bot
              /\ startPc' = [startPc EXCEPT ![s] = "returned"]
    /\ UNCHANGED <<settingVars, shutdown, stopping, cronVars, menuSet,
                   polled, chan, stopPc, tasks, bcast, auth, panicked>>

\* setCommandMenu: one request to the gateway; a failure is logged.
setCommandMenu(ok) == IF ok THEN TRUE ELSE menuSet

\* Line 69 with a failed registration ending Start().
StartSetCommandMenuFatal(s) ==
    /\ Live
    /\ startPc[s] = "menu"
    /\ \E ok \in BOOLEAN :
         /\ menuSet' = setCommandMenu(ok)
         /\ startPc' = [startPc EXCEPT ![s] = IF ok THEN "launch" ELSE "returned"]
    /\ UNCHANGED <<settingVars, bot, shutdown, stopping, cronVars,
                   polled, chan, stopPc, tasks, bcast, auth, panicked>>

\* Start, line 69.
StartSetCommandMenu(s) ==
    /\ Live
    /\ startPc[s] = "menu"
    /\ IF bot = Nil
       THEN panicked' = "setCommandMenu" /\ UNCHANGED <<menuSet, startPc>>
       ELSE /\ \E ok \in BOOLEAN : menuSet' = setCommandMenu(ok)
            /\ startPc' = [startPc EXCEPT ![s] = "launch"]
            /\ UNCHANGED panicked
    /\ UNCHANGED <<settingVars, bot, shutdown, stopping, cronVars,
                   polled, chan, stopPc, tasks, bcast, auth>>

\* Lines 72-77 without line 72: the loop begins with no scheduler launched.
StartLaunchWithoutCron(s) ==
    /\ Live
    /\ startPc[s] = "launch"
    /\ polled' = [polled EXCEPT ![s] = bot]
    /\ startPc' = [startPc EXCEPT ![s] = "loop"]
    /\ UNCHANGED <<settingVars, bot, shutdown, stopping, cronVars, menuSet,
                   chan, stopPc, tasks, bcast, auth, panicked>>

\* Start, lines 72-77: go t.startCron(), then GetUpdatesChan on the handle
\* t.bot holds now.  The new goroutine's steps are its own (CronAddFunc,
\* CronStart) and touch nothing that GetUpdatesChan reads.
StartLaunch(s) ==
    /\ Live
    /\ startPc[s] = "launch"
    /\ IF bot = Nil
       THEN panicked' = "Start" /\ UNCHANGED <<polled, startPc, cronPc>>
       ELSE /\ cronPc' = [cronPc EXCEPT ![s] = "add"]
            /\ polled' = [polled EXCEPT ![s] = bot]
            /\ startPc' = [startPc EXCEPT ![s] = "loop"]
            /\ UNCHANGED panicked
    /\ UNCHANGED <<settingVars, bot, shutdown, stopping, cron, cronId,
                   cronLocal, menuSet, chan, stopPc, tasks, bcast, auth>>

\* The updates in the channels and with the handlers.
RECURSIVE Buffered(_)
Buffered(S) ==
    IF S = {} THEN 0
    ELSE LET s == CHOOSE x \in S : TRUE IN Len(chan[s]) + Buffered(S \ {s})

\* The gateway's poller of call s puts an update into its channel, until
\* the loop has left it.  After StopReceivingUpdates the batch in flight is
\* still delivered before the poller closes the channel.
Deliver(s, U) ==
    /\ Live
    /\ startPc[s] = "loop"
    /\ Buffered(Starts) + Len(tasks) < MaxUpdates
    /\ \E u \in U : chan' = [chan EXCEPT ![s] = Append(@, u)]
    /\ UNCHANGED <<settingVars, bot, shutdown, stopping, cronVars, menuSet,
                   startPc, polled, stopPc, tasks, bcast, auth,
                   panicked>>

\* go t.handleMessage / go t.handleCallback: a new handler goroutine.
\* list: the admin list as it was when the handler ran.
Spawn(u, s) == Append(tasks, [upd |-> u, by |-> s, state |-> "spawned",
                              list |-> <<>>, events |-> <<>>])

\* The loop body without lines 81-83.
LoopIterationIgnoresFlag(s) ==
    /\ Live
    /\ startPc[s] = "loop"
    /\ chan[s] # <<>>
    /\ LET update == Head(chan[s])
       IN  /\ chan' = [chan EXCEPT ![s] = Tail(@)]
           /\ startPc' = startPc
           /\ tasks' = IF update.kind \in {"message", "callback"}
                       THEN Spawn(update, s)
                       ELSE tasks
    /\ UNCHANGED <<settingVars, bot, shutdown, stopping, cronVars, menuSet,
                   polled, stopPc, bcast, auth, panicked>>

\* The loop body with the handlers called in the loop's own goroutine: the
\* next update waits for the handler of the one before.
LoopIterationInline(s) ==
    /\ Live
    /\ startPc[s] = "loop"
    /\ chan[s] # <<>>
    /\ tasks = <<>>
    /\ LET update == Head(chan[s])
       IN  /\ chan' = [chan EXCEPT ![s] = Tail(@)]
           /\ IF stopping
              THEN /\ startPc' = [startPc EXCEPT ![s] = "returned"]
                   /\ tasks' = tasks
              ELSE /\ startPc' = startPc
                   /\ tasks' = IF update.kind \in {"message", "callback"}
                               THEN Spawn(update, s)
                               ELSE tasks
    /\ UNCHANGED <<settingVars, bot, shutdown, stopping, cronVars, menuSet,
                   polled, stopPc, bcast, auth, panicked>>

\* Start, lines 80-89: one iteration of the loop on a received update.
\* t.stopping is read here and written by Stop() with no synchronisation; the
\* read is of one byte and is made anew on every iteration, so it returns
\* the value before or after the write, as the two orders of the steps do.
LoopIteration(s) ==
    /\ Live
    /\ startPc[s] = "loop"
    /\ chan[s] # <<>>
    /\ LET update == Head(chan[s])
       IN  /\ chan' = [chan EXCEPT ![s] = Tail(@)]
           /\ IF stopping
              THEN /\ startPc' = [startPc EXCEPT ![s] = "returned"]
                   /\ tasks' = tasks
              ELSE /\ startPc' = startPc
                   /\ tasks' = IF update.kind \in {"message", "callback"}
                               THEN Spawn(update, s)
                               ELSE tasks
    /\ UNCHANGED <<settingVars, bot, shutdown, stopping, cronVars, menuSet,
                   polled, stopPc, bcast, auth, panicked>>

\* Start, line 80: the range ends when the channel is closed and drained;
\* the poller closes it once StopReceivingUpdates was called on its handle.
LoopChannelClosed(s) ==
    /\ Live
    /\ startPc[s] = "loop"
    /\ chan[s] = <<>>
    /\ shutdown[polled[s]]
    /\ startPc' = [startPc EXCEPT ![s] = "returned"]
    /\ UNCHANGED <<settingVars, bot, shutdown, stopping, cronVars, menuSet,
                   polled, chan, stopPc, tasks, bcast, auth, panicked>>

\* Stop, line 93.
StopSetFlag(k) ==
    /\ Live
    /\ MayFollow(stopPc, k)
    /\ stopping' = TRUE
    /\ stopPc' = [stopPc EXCEPT ![k] = "gateway"]
    /\ UNCHANGED <<settingVars, bot, shutdown, cronVars, menuSet, startVars,
                   tasks, bcast, auth, panicked>>

\* Stop, lines 94-96.  StopReceivingUpdates of telegram-bot-api/v5 is
\* close(bot.shutdownChannel) on the handle: the first call ends the handle's
\* poller, a second call on the same handle closes a closed channel, which
\* panics in Go.  Stop() never clears t.bot, so a later Stop() meets the same
\* handle unless a Start() replaced it in between.
StopGateway(k) ==
    /\ Live
    /\ stopPc[k] = "gateway"
    /\ IF bot = Nil
       THEN UNCHANGED <<shutdown, panicked>> /\ stopPc' = [stopPc EXCEPT ![k] = "cron"]
       ELSE IF shutdown[bot]
       THEN panicked' = "Stop" /\ UNCHANGED <<shutdown, stopPc>>
       ELSE /\ shutdown' = [shutdown EXCEPT ![bot] = TRUE]
            /\ stopPc' = [stopPc EXCEPT ![k] = "cron"]
            /\ UNCHANGED panicked
    /\ UNCHANGED <<settingVars, bot, stopping, cronVars, menuSet, startVars,
                   tasks, bcast, auth>>

\* Stop, lines 97-100: t.cron is never nil; cron.Stop() on a stopped
\* scheduler does nothing.
StopCron(k) ==
    /\ Live
    /\ stopPc[k] = "cron"
    /\ cron' = [cron EXCEPT !.running = FALSE]
    /\ stopPc' = [stopPc EXCEPT ![k] = "returned"]
    /\ UNCHANGED <<settingVars, bot, shutdown, stopping, cronId, cronPc,
                   cronLocal, menuSet, startVars, tasks, bcast, auth, panicked>>

\* ------------------------------------------------------------- scheduler

\* cron.New() takes the standard parser: five fields (minute, hour, day of
\* month, month, day of week), no seconds field.
CronFields == 5

\* startCron, line 250: the default expression "0 0 8 * * *".
DefaultRuntime == <<"0", "0", "8", "*", "*", "*">>

\* cron.AddFunc's parse of the expression.
SpecParses(fields) == Len(fields) = CronFields

\* startCron, lines 248-257: read the expression, add the job.
CronAddFunc(s) ==
    /\ Live
    /\ cronPc[s] = "add"
    /\ LET runtime == IF runtimeCfg = <<>> THEN DefaultRuntime ELSE runtimeCfg
       IN  IF SpecParses(runtime)
           THEN /\ cron' = [cron EXCEPT !.entries = @ + 1]
                /\ cronLocal' = [cronLocal EXCEPT ![s] = cron.entries + 1]
                /\ cronPc' = [cronPc EXCEPT ![s] = "start"]
           ELSE /\ cronPc' = [cronPc EXCEPT ![s] = "done"]
                /\ UNCHANGED <<cron, cronLocal>>
    /\ UNCHANGED <<settingVars, bot, shutdown, stopping, cronId, menuSet,
                   startVars, stopPc, tasks, bcast, auth, panicked>>

\* startCron, lines 258-260: store the id, start the scheduler.
CronStart(s) ==
    /\ Live
    /\ cronPc[s] = "start"
    /\ cronId' = cronLocal[s]
    /\ cron' = [cron EXCEPT !.running = TRUE]
    /\ cronPc' = [cronPc EXCEPT ![s] = "done"]
    /\ UNCHANGED <<settingVars, bot, shutdown, stopping, cronLocal, menuSet,
                   startVars, stopPc, tasks, bcast, auth, panicked>>

\* ------------------------------------------------------------- broadcasts

\* The send loop over the split list with one failing send (failAt names
\* the entry whose send fails, 0 for none), cut short by that failure.
RECURSIVE sendToAllUntilFailure(_, _, _, _)
sendToAllUntilFailure(toks, i, failAt, acc) ==
    IF i > Len(toks) THEN acc
    ELSE LET r == ParseInt(toks[i])
         IN  IF r.err THEN sendToAllUntilFailure(toks, i + 1, failAt, acc)
             ELSE IF i = failAt THEN Append(acc, [chat |-> r.val, ok |-> FALSE])
             ELSE sendToAllUntilFailure(toks, i + 1, failAt,
                                        Append(acc, [chat |-> r.val, ok |-> TRUE]))

\* The send loop of NotifyLogin, NotifyTrafficLimit, NotifyExpiration,
\* NotifyCPULoad and sendDailyReport: every entry that parses gets one
\* sendMsg, whose failure is logged and not returned.
RECURSIVE sendToAll(_, _, _, _)
sendToAll(toks, i, failAt, acc) ==
    IF i > Len(toks) THEN acc
    ELSE LET r == ParseInt(toks[i])
         IN  IF r.err THEN sendToAll(toks, i + 1, failAt, acc)
             ELSE sendToAll(toks, i + 1, failAt,
                            Append(acc, [chat |-> r.val, ok |-> i # failAt]))

NotifyKinds == {"login", "traffic", "expiration", "cpu"}

\* A broadcast call: whether its inbound query failed, the sends it made.
Record(kind, queryErr, attempts) ==
    [kind |-> kind, queryErr |-> queryErr, attempts |-> attempts]

\* A Notify* body without its guard.
NotifyUnguarded(kind, failAt) ==
    Record(kind, FALSE, sendToAll(Split(chatIdsCfg), 1, failAt, <<>>))

\* NotifyLogin, NotifyTrafficLimit, NotifyExpiration, NotifyCPULoad: the
\* same guard and the same loop around four message formats.
Notify(kind, failAt) ==
    IF ~enabled \/ bot = Nil
    THEN Record(kind, FALSE, <<>>)
    ELSE Record(kind, FALSE, sendToAll(Split(chatIdsCfg), 1, failAt, <<>>))

NotifyCall ==
    /\ Live
    /\ \E kind \in NotifyKinds, failAt \in 0..Len(Split(chatIdsCfg)) :
         bcast' = Notify(kind, failAt)
    /\ UNCHANGED <<settingVars, bot, shutdown, stopping, cronVars, menuSet,
                   startVars, stopPc, tasks, auth, panicked>>

\* sendDailyReport: the inbound query, then the loop; no guard.
sendDailyReport(inboundsOk, failAt) ==
    IF ~inboundsOk THEN Record("report", TRUE, <<>>)
    ELSE Record("report", FALSE, sendToAll(Split(chatIdsCfg), 1, failAt, <<>>))

\* The scheduler's timer fires one of its entries.
CronFire ==
    /\ Live
    /\ cron.running
    /\ cron.entries > 0
    /\ \E inboundsOk \in BOOLEAN, failAt \in 0..Len(Split(chatIdsCfg)) :
         LET r == sendDailyReport(inboundsOk, failAt)
         IN  IF bot = Nil /\ r.attempts # <<>>
             THEN panicked' = "sendDailyReport" /\ bcast' = bcast
             ELSE panicked' = panicked /\ bcast' = r
    /\ UNCHANGED <<settingVars, bot, shutdown, stopping, cronVars, menuSet,
                   startVars, stopPc, tasks, auth>>

\* The broadcast call returns.
BroadcastReturn ==
    /\ panicked = ""
    /\ bcast # NoBroadcast
    /\ bcast' = NoBroadcast
    /\ UNCHANGED <<settingVars, bot, shutdown, stopping, cronVars, menuSet,
                   startVars, stopPc, tasks, auth, panicked>>

\* --------------------------------------------------------------- settings

SetEnabled ==
    /\ Live
    /\ enabled' = ~enabled
    /\ UNCHANGED <<chatIdsCfg, runtimeCfg, bot, shutdown, stopping, cronVars,
                   menuSet, startVars, stopPc, tasks, bcast, auth, panicked>>

SetChatIds(L) ==
    /\ Live
    /\ chatIdsCfg' \in L \ {chatIdsCfg}
    /\ UNCHANGED <<enabled, runtimeCfg, bot, shutdown, stopping, cronVars,
                   menuSet, startVars, stopPc, tasks, bcast, auth, panicked>>

\* --------------------------------------------------------------- handlers

NotAuthorized  == "You are not authorized to use this bot."
Welcome        == "Welcome to 3X-UI Bot! Use /menu to see options."
MenuPrompt     == "Select an option:"
UnknownCommand == "Unknown command. Use /menu to see options."
UnknownOption  == "Unknown option."
FunctionsText  == "Available functions:\n- Traffic stats\n- User management\n(to be expanded)"
HelpText       == "Help:\n/menu - Show options\nContact admin for more info."
StatusFailed   == "Failed to get status: <err>"
StatusReport   == "System Status:\n<inbounds>CPU Usage: 45.50%\n"
Restarting     == "Restarting 3X-UI..."
StopFailed     == "Failed to stop server: <err>"
StartFailed    == "Failed to start server: <err>"
Restarted      == "3X-UI restarted successfully."
Clearing       == "Clearing all data..."
ClearFailed    == "Failed to clear data: <err>"
Cleared        == "All data cleared successfully."

\* What a handler meets: which of its gateway requests fails (its position
\* among the handler's calls, 0 for none) and which service call fails.
Services == {"GetAllInbounds", "WebServer.Stop", "WebServer.Start",
             "ClearTraffic"}
Outcomes == [failAt : 0..5, err : Services \cup {"none"}]

\* A call a handler makes: a request to the gateway or to a service.
Call(ev, type, chatID, text, ok) ==
    Append(ev, [type |-> type, chat |-> chatID, text |-> text, ok |-> ok])

\* A sendMsg that addresses every message to chat 1.
sendMsgToChatOne(ev, chatID, text, x) ==
    Call(ev, "send", 1, text, Len(ev) + 1 # x.failAt)

\* sendMsg: one Send; its failure is logged and not returned.
sendMsg(ev, chatID, text, x) ==
    Call(ev, "send", chatID, text, Len(ev) + 1 # x.failAt)

\* showMenu: one Send of the prompt with the inline keyboard.
showMenu(ev, chatID, x) ==
    Call(ev, "menu", chatID, MenuPrompt, Len(ev) + 1 # x.failAt)

sendStatus(ev, chatID, x) ==
    LET q == Call(ev, "GetAllInbounds", 0, "", x.err # "GetAllInbounds")
    IN  IF x.err = "GetAllInbounds" THEN sendMsg(q, chatID, StatusFailed, x)
        ELSE sendMsg(q, chatID, StatusReport, x)

\* A restartServer that goes on to the start when the stop failed.
restartServerIgnoresStopError(ev, chatID, x) ==
    LET a == sendMsg(ev, chatID, Restarting, x)
        b == Call(a, "WebServer.Stop", 0, "", x.err # "WebServer.Stop")
        c == Call(b, "WebServer.Start", 0, "", x.err # "WebServer.Start")
    IN  IF x.err = "WebServer.Start" THEN sendMsg(c, chatID, StartFailed, x)
        ELSE sendMsg(c, chatID, Restarted, x)

\* restartServer: the announcement, the stop, the start, each failure
\* reported with its own message and ending the handler.
restartServer(ev, chatID, x) ==
    LET a == sendMsg(ev, chatID, Restarting, x)
        b == Call(a, "WebServer.Stop", 0, "", x.err # "WebServer.Stop")
    IN  IF x.err = "WebServer.Stop" THEN sendMsg(b, chatID, StopFailed, x)
        ELSE LET c == Call(b, "WebServer.Start", 0, "", x.err # "WebServer.Start")
             IN  IF x.err = "WebServer.Start" THEN sendMsg(c, chatID, StartFailed, x)
                 ELSE sendMsg(c, chatID, Restarted, x)

clearAll(ev, chatID, x) ==
    LET a == sendMsg(ev, chatID, Clearing, x)
        b == Call(a, "ClearTraffic", 0, "", x.err # "ClearTraffic")
    IN  IF x.err = "ClearTraffic" THEN sendMsg(b, chatID, ClearFailed, x)
        ELSE sendMsg(b, chatID, Cleared, x)

\* handleMessage: the admin check, then the switch on the whole text.
handleMessage(msg, x) ==
    IF ~checkAdmin(chatIdsCfg, msg.chat)
    THEN sendMsg(<<>>, msg.chat, NotAuthorized, x)
    ELSE CASE msg.data = "/start" -> sendMsg(<<>>, msg.chat, Welcome, x)
           [] msg.data = "/menu"  -> showMenu(<<>>, msg.chat, x)
           [] OTHER               -> sendMsg(<<>>, msg.chat, UnknownCommand, x)

\* The switch with the "help" case left out.
callbackSwitchNoHelp(callback, x) ==
    LET chatID == callback.chat
    IN  CASE callback.data = "functions" -> sendMsg(<<>>, chatID, FunctionsText, x)
          [] callback.data = "status"    -> sendStatus(<<>>, chatID, x)
          [] callback.data = "restart"   -> restartServer(<<>>, chatID, x)
          [] callback.data = "clearall"  -> clearAll(<<>>, chatID, x)
          [] OTHER                       -> sendMsg(<<>>, chatID, UnknownOption, x)

\* handleCallback, lines 159-173: the switch on the callback's data.
callbackSwitch(callback, x) ==
    LET chatID == callback.chat
    IN  CASE callback.data = "functions" -> sendMsg(<<>>, chatID, FunctionsText, x)
          [] callback.data = "status"    -> sendStatus(<<>>, chatID, x)
          [] callback.data = "restart"   -> restartServer(<<>>, chatID, x)
          [] callback.data = "clearall"  -> clearAll(<<>>, chatID, x)
          [] callback.data = "help"      -> sendMsg(<<>>, chatID, HelpText, x)
          [] OTHER                       -> sendMsg(<<>>, chatID, UnknownOption, x)

\* A handleCallback that returns without the acknowledgement when a call
\* of its handler failed.
handleCallbackReturnsOnFailure(callback, x) ==
    LET ev == callbackSwitch(callback, x)
    IN  IF \E j \in 1..Len(ev) : ~ev[j].ok THEN ev
        ELSE Call(ev, "ack", 0, "", Len(ev) + 1 # x.failAt)

\* handleCallback: the switch, then the acknowledgement of the callback.
handleCallback(callback, x) ==
    LET ev == callbackSwitch(callback, x)
    IN  Call(ev, "ack", 0, "", Len(ev) + 1 # x.failAt)

\* A handler goroutine runs.  Handlers share nothing but the settings they
\* read, so each runs as one step, at any time after its dispatch and in
\* any order with the other handlers.
RunHandler(i, X) ==
    /\ Live
    /\ i \in 1..Len(tasks)
    /\ tasks[i].state = "spawned"
    /\ IF bot = Nil
       THEN panicked' = "sendMsg" /\ tasks' = tasks
       ELSE /\ panicked' = panicked
            /\ \E x \in X :
                 LET u == tasks[i].upd
                 IN  tasks' = [tasks EXCEPT
                        ![i].state = "done",
                        ![i].list = chatIdsCfg,
                        ![i].events = IF u.kind = "message"
                                      THEN handleMessage(u, x)
                                      ELSE handleCallback(u, x)]
    /\ UNCHANGED <<settingVars, bot, shutdown, stopping, cronVars, menuSet,
                   startVars, stopPc, bcast, auth>>

\* The handler goroutine ends.
HandlerReturn(i) ==
    /\ panicked = ""
    /\ i \in 1..Len(tasks)
    /\ tasks[i].state = "done"
    /\ tasks' = SubSeq(tasks, 1, i - 1) \o SubSeq(tasks, i + 1, Len(tasks))
    /\ UNCHANGED <<settingVars, bot, shutdown, stopping, cronVars, menuSet,
                   startVars, stopPc, bcast, auth, panicked>>

\* ----------------------------------------------------------------- inputs

\* Chat 1 is an administrator under "2,a,,1"; chat 9 never is.
Chats == {1, 9}

Update(kind, chatID, data) == [kind |-> kind, chat |-> chatID, data |-> data]

MessageUpdates  == {Update("message", c, d) :
                      c \in Chats, d \in {"/start", "/menu", "/menu now"}}
CallbackUpdates == {Update("callback", c, d) :
                      c \in Chats, d \in {"functions", "status", "restart",
                                          "clearall", "help", "Status"}}
\* Updates that carry neither a message nor a callback (an edited message).
OtherUpdates    == {Update("other", 1, "")}
AllUpdates      == MessageUpdates \cup CallbackUpdates \cup OtherUpdates

\* The updates the session's life is explored with: a command of an
\* administrator, a selection made in a chat that is none, an update that
\* carries neither.
SessionUpdates  == {Update("message", 1, "/start"),
                    Update("callback", 9, "help"),
                    Update("other", 1, "")}

\* A call of checkAdmin with the settings as they are now.
CheckAdminCall(chatID) ==
    /\ Live
    /\ auth' = [chat |-> chatID, called |-> TRUE,
                result |-> checkAdmin(chatIdsCfg, chatID)]
    /\ UNCHANGED <<settingVars, bot, shutdown, stopping, cronVars, menuSet,
                   startVars, stopPc, tasks, bcast, panicked>>

\* The call returns.
CheckAdminReturn ==
    /\ auth # NoAuth
    /\ auth' = NoAuth
    /\ UNCHANGED <<settingVars, bot, shutdown, stopping, cronVars, menuSet,
                   startVars, stopPc, tasks, bcast, panicked>>

\* The characters the drawn chat id lists are made of.
Alphabet == {"0", "1", "2", ",", "a", "-"}

\* The spec's scenario: "111,abc,222".
Scenario == <<"1", "1", "1", ",", "a", "b", "c", ",", "2", "2", "2">>

\* The admin edits the list: one character more, or one less.
EditChatIds ==
    /\ Live
    /\ \/ /\ Len(chatIdsCfg) < MaxLen
          /\ \E c \in Alphabet : chatIdsCfg' = Append(chatIdsCfg, c)
       \/ /\ Len(chatIdsCfg) > 0
          /\ chatIdsCfg' = SubSeq(chatIdsCfg, 1, Len(chatIdsCfg) - 1)
    /\ UNCHANGED <<enabled, runtimeCfg, bot, shutdown, stopping, cronVars,
                   menuSet, startVars, stopPc, tasks, bcast, auth, panicked>>

\* The chat ids asked about.
AuthChats == {0, 1, 2, 12, 21, 111, 222, 999, -1, -12}

\* ------------------------------------------------------ the specifications

(***************************************************************************)
(* The goroutines touch disjoint parts of the state: the scheduler's job   *)
(* and the Notify* calls read the settings, the handle and the scheduler;  *)
(* the handlers read the settings and the handle; Start, Stop and the      *)
(* startCron goroutines write the handle, the flag and the scheduler.      *)
(* Each specification below takes the actions that write or read the part  *)
(* its claims are about; the actions left out write nothing that the       *)
(* actions taken read.                                                     *)
(***************************************************************************)

\* The session's life: Start and Stop calls from any goroutine, the
\* startCron goroutines, the end of the update channel.
Init ==
    /\ enabled \in BOOLEAN
    /\ chatIdsCfg = ListMixed
    /\ runtimeCfg \in RuntimeSpecs
    /\ InitSession

Next ==
    \/ \E s \in Starts : StartEnabledCheck(s)
    \/ \E s \in Starts : StartNewBotAPI(s)
    \/ \E s \in Starts : StartSetCommandMenu(s)
    \/ \E s \in Starts : StartLaunch(s)
    \/ \E s \in Starts : LoopChannelClosed(s)
    \/ \E s \in Starts : CronAddFunc(s)
    \/ \E s \in Starts : CronStart(s)
    \/ \E k \in Stops : StopSetFlag(k)
    \/ \E k \in Stops : StopGateway(k)
    \/ \E k \in Stops : StopCron(k)

Spec == Init /\ [][Next]_vars

\* The broadcasts: the Notify* calls and the scheduler's job, over the
\* session's life, under changing settings and a schedule that parses.
InitNotify ==
    /\ enabled \in BOOLEAN
    /\ chatIdsCfg = ListMixed
    /\ runtimeCfg = RuntimeDaily
    /\ InitSession

\* Here a Start() call is made once the call before it is in its loop or
\* has returned: a broadcast reads the handle, which either order of two
\* overlapping initialisations leaves set.
InTurn(s) == IF s = 1 THEN TRUE ELSE startPc[s - 1] \in {"loop", "returned"}

NextNotify ==
    \/ \E s \in Starts : InTurn(s) /\ StartEnabledCheck(s)
    \/ \E s \in Starts : StartNewBotAPI(s)
    \/ \E s \in Starts : StartSetCommandMenu(s)
    \/ \E s \in Starts : StartLaunch(s)
    \/ \E s \in Starts : CronAddFunc(s)
    \/ \E s \in Starts : CronStart(s)
    \/ \E k \in Stops : StopSetFlag(k)
    \/ \E k \in Stops : StopGateway(k)
    \/ \E k \in Stops : StopCron(k)
    \/ SetEnabled
    \/ SetChatIds(ConfigLists)
    \/ NotifyCall
    \/ CronFire
    \/ BroadcastReturn

SpecNotify == InitNotify /\ [][NextNotify]_vars

\* The router: one running session, every kind of update, every outcome of
\* the handlers' calls, under a changing admin list.
InitRouter ==
    /\ enabled = TRUE
    /\ chatIdsCfg \in ConfigLists
    /\ runtimeCfg = RuntimeUnset
    /\ InitSession

NextRouter ==
    \/ StartEnabledCheck(1)
    \/ StartNewBotAPI(1)
    \/ StartSetCommandMenu(1)
    \/ StartLaunch(1)
    \/ Deliver(1, AllUpdates)
    \/ LoopIteration(1)
    \/ \E i \in 1..MaxUpdates : RunHandler(i, Outcomes)
    \/ \E i \in 1..MaxUpdates : HandlerReturn(i)
    \/ SetChatIds(ConfigLists)

SpecRouter == InitRouter /\ [][NextRouter]_vars

\* The admin check on its own: every list of at most MaxLen characters and
\* the scenario's list, edited between the calls.
InitAuth ==
    /\ enabled = TRUE
    /\ chatIdsCfg \in {<<>>, Scenario}
    /\ runtimeCfg = RuntimeUnset
    /\ InitSession

NextAuth ==
    \/ \E c \in AuthChats : CheckAdminCall(c)
    \/ CheckAdminReturn
    \/ EditChatIds

SpecAuth == InitAuth /\ [][NextAuth]_vars

\* The ingestion loops over the session's life: a Start() call made while
\* the loop of an earlier one runs or after it returned, Stop() calls at any
\* moment, updates arriving while a loop polls.  What the loops do does not
\* depend on the dispatched handlers, which stay as dispatched; overlapping
\* initialisations and the scheduler are explored by Spec.
InitLoop ==
    /\ enabled \in BOOLEAN
    /\ chatIdsCfg = ListMixed
    /\ runtimeCfg = RuntimeDaily
    /\ InitSession

NextLoop ==
    \/ \E s \in Starts : InTurn(s) /\ StartEnabledCheck(s)
    \/ \E s \in Starts : StartNewBotAPI(s)
    \/ \E s \in Starts : StartSetCommandMenu(s)
    \/ \E s \in Starts : StartLaunch(s)
    \/ \E s \in Starts : Deliver(s, SessionUpdates)
    \/ \E s \in Starts : LoopIteration(s)
    \/ \E s \in Starts : LoopChannelClosed(s)
    \/ \E k \in Stops : StopSetFlag(k)
    \/ \E k \in Stops : StopGateway(k)
    \/ \E k \in Stops : StopCron(k)

SpecLoop == InitLoop /\ [][NextLoop]_vars

\* One ingestion loop under the scheduling the Go runtime gives: a goroutine
\* that can take its next step takes it.  Whether the caller ever calls
\* Start() or Stop(), and whether the gateway ever has another update, is
\* left open; a dispatched handler may stay blocked for ever.
NextFair ==
    \/ StartEnabledCheck(1)
    \/ StartNewBotAPI(1)
    \/ StartSetCommandMenu(1)
    \/ StartLaunch(1)
    \/ Deliver(1, SessionUpdates)
    \/ LoopIteration(1)
    \/ LoopChannelClosed(1)
    \/ \E k \in Stops : StopSetFlag(k)
    \/ \E k \in Stops : StopGateway(k)
    \/ \E k \in Stops : StopCron(k)

FairLoop ==
    /\ WF_vars(StartNewBotAPI(1))
    /\ WF_vars(StartSetCommandMenu(1))
    /\ WF_vars(StartLaunch(1))
    /\ WF_vars(LoopIteration(1))
    /\ WF_vars(LoopChannelClosed(1))
    /\ \A k \in Stops : WF_vars(StopGateway(k))
    /\ \A k \in Stops : WF_vars(StopCron(k))

SpecFair == InitLoop /\ [][NextFair]_vars /\ FairLoop

\* ----------------------------------------------------------------- claims

\* The entries of a list, found by their places: the longest runs without a
\* comma, as <<first, last>>.
Runs(s) ==
    {r \in (1..Len(s)) \X (1..Len(s)) :
        /\ r[1] <= r[2]
        /\ \A k \in r[1]..r[2] : s[k] # ","
        /\ (r[1] = 1 \/ s[r[1] - 1] = ",")
        /\ (r[2] = Len(s) \/ s[r[2] + 1] = ",")}

\* The entries that parse as integers, and the chat ids they name.
ParsingRuns(s) == {r \in Runs(s) : ~ParseInt(SubSeq(s, r[1], r[2])).err}
RunVal(s, r)   == ParseInt(SubSeq(s, r[1], r[2])).val
AdminIds(s)    == {RunVal(s, r) : r \in ParsingRuns(s)}

\* The n-th entry that parses.
NthParsing(s, n) ==
    CHOOSE r \in ParsingRuns(s) :
        Cardinality({q \in ParsingRuns(s) : q[1] < r[1]}) = n - 1

\* The attempts are one send to each entry that parses, in the list's order.
ReachesAll(attempts, s) ==
    /\ Len(attempts) = Cardinality(ParsingRuns(s))
    /\ \A n \in 1..Len(attempts) : attempts[n].chat = RunVal(s, NthParsing(s, n))

Done(i) == tasks[i].state = "done"

\* The handler's gateway and service calls before its acknowledgement.
IsReply(e, type, chatID, text) ==
    e.type = type /\ e.chat = chatID /\ e.text = text

\* C1: an update (message or callback) from a chat that is not in the admin
\* list gets exactly one "not authorized" message, and its handler makes no
\* other call.
C1_EveryUpdatePassesTheGate ==
    \A i \in 1..Len(tasks) :
        (Done(i) /\ tasks[i].upd.chat \notin AdminIds(tasks[i].list))
        => /\ Len(tasks[i].events) = 1
           /\ IsReply(tasks[i].events[1], "send", tasks[i].upd.chat, NotAuthorized)

\* C2: checkAdmin answers true exactly for the chat ids named by the entries
\* of the current list that parse as integers; on "111,abc,222" that is 111
\* and 222.
C2_CheckAdminExact ==
    auth.called =>
        /\ auth.result <=> (auth.chat \in AdminIds(chatIdsCfg))
        /\ chatIdsCfg = Scenario => (auth.result <=> auth.chat \in {111, 222})

C2_Witness ==
    auth.called /\ chatIdsCfg = Scenario /\ auth.chat = 222 /\ auth.result

\* C3: a callback handler's calls end with the acknowledgement, made once,
\* whatever the callback's data and whichever of its calls failed.
C3_OneAckAfterHandler ==
    \A i \in 1..Len(tasks) :
        (Done(i) /\ tasks[i].upd.kind = "callback")
        => LET ev == tasks[i].events
           IN  /\ Len(ev) >= 2
               /\ ev[Len(ev)].type = "ack"
               /\ \A j \in 1..(Len(ev) - 1) : ev[j].type # "ack"

C3_Witness ==
    \E i \in 1..Len(tasks) :
        /\ Done(i)
        /\ tasks[i].upd.data = "restart"
        /\ \E j \in 1..Len(tasks[i].events) :
              tasks[i].events[j].type = "WebServer.Stop" /\ ~tasks[i].events[j].ok
        /\ tasks[i].events[Len(tasks[i].events)].type = "ack"

\* The first call a callback's own handler makes.
FirstCallOf(data) ==
    CASE data = "functions" -> [type |-> "send", text |-> FunctionsText]
      [] data = "status"    -> [type |-> "GetAllInbounds", text |-> ""]
      [] data = "restart"   -> [type |-> "send", text |-> Restarting]
      [] data = "clearall"  -> [type |-> "send", text |-> Clearing]
      [] data = "help"      -> [type |-> "send", text |-> HelpText]

KnownActions == {"functions", "status", "restart", "clearall", "help"}

\* Routing with the reply to an unmatched command given as a parameter.
RoutingTotal(unknownCommand) ==
    \A i \in 1..Len(tasks) :
        Done(i) =>
            LET u  == tasks[i].upd
                ev == tasks[i].events
            IN  /\ (u.kind = "message" /\ u.chat \in AdminIds(tasks[i].list))
                   => /\ Len(ev) = 1
                      /\ CASE u.data = "/start" -> IsReply(ev[1], "send", u.chat, Welcome)
                           [] u.data = "/menu"  -> IsReply(ev[1], "menu", u.chat, MenuPrompt)
                           [] OTHER -> IsReply(ev[1], "send", u.chat, unknownCommand)
                /\ (u.kind = "callback" /\ u.data \notin KnownActions)
                   => Len(ev) = 2 /\ IsReply(ev[1], "send", u.chat, UnknownOption)
                /\ (u.kind = "callback" /\ u.data \in KnownActions)
                   => /\ ev[1].type = FirstCallOf(u.data).type
                      /\ ev[1].text = FirstCallOf(u.data).text
                      /\ \A j \in 1..Len(ev) : ev[j].text # UnknownOption

C5_EveryBroadcastReachesAll ==
    (bcast.kind # "none" /\ enabled /\ bot # Nil)
    => ReachesAll(bcast.attempts, chatIdsCfg)

\* C5, amended: so does every Notify* call, and every daily report whose
\* inbound query succeeded; a report whose query failed sends nothing.
C5_BroadcastReachesAll ==
    (bcast.kind # "none" /\ enabled /\ bot # Nil)
    => IF bcast.queryErr THEN bcast.kind = "report" /\ bcast.attempts = <<>>
       ELSE ReachesAll(bcast.attempts, chatIdsCfg)

C5_Witness ==
    /\ bcast.kind = "login"
    /\ enabled /\ bot # Nil
    /\ chatIdsCfg = ListMixed
    /\ Len(bcast.attempts) = 2
    /\ ~bcast.attempts[1].ok /\ bcast.attempts[2].ok

\* C6: a Notify* call made while the bot is disabled or the handle is not
\* set sends nothing, and the process goes on.
C6_NotifyNoOp ==
    (bcast.kind \in NotifyKinds /\ (~enabled \/ bot = Nil))
    => bcast.attempts = <<>> /\ panicked = ""

C6_Witness ==
    /\ bcast.kind = "expiration"
    /\ ~enabled /\ bot # Nil
    /\ chatIdsCfg = ListMixed
    /\ \E k \in Stops : stopPc[k] = "returned"

\* C7: a daily report that fires while the bot is disabled or the handle is
\* not set sends nothing.
C7_ReportNoOpWhenDisabled ==
    (bcast.kind = "report" /\ (~enabled \/ bot = Nil)) => bcast.attempts = <<>>

\* The session is running: a Start() call is in its loop and no Stop() came.
Running == ~stopping /\ \E r \in Starts : startPc[r] = "loop"

\* C8: a Start() call made while the session is running returns at once: it
\* does not go on to authenticate, to store a handle, to launch startCron or
\* to enter a second loop.
C8_StartNoOpWhenRunning ==
    [][\A s \in Starts :
          (Running /\ startPc[s] = "ready") => startPc'[s] \in {"ready", "returned"}]_vars

\* What Stop() writes.
session == <<bot, shutdown, stopping, cron>>

\* The session is as a completed Stop() leaves it.
Stopped == stopping /\ (bot # Nil => shutdown[bot]) /\ ~cron.running

\* C9: Stop() never fails, and on a session that a Stop() has already left
\* stopped every step of a further Stop() changes nothing.
C9_StopIdempotent ==
    [][/\ panicked' # "Stop"
       /\ (Stopped /\ stopPc' # stopPc) => session' = session]_vars

\* C10: once a Stop() that found the handle of Start() call s has returned,
\* and no Start() was called after s, the scheduler is not running.
C10_StopStopsScheduler ==
    \A s \in Starts :
        ( /\ shutdown[s]
          /\ \A k \in Stops : stopPc[k] \in {"ready", "returned"}
          /\ \A r \in Starts : r > s => startPc[r] = "ready" )
        => ~cron.running

\* What a Start() call may set up: the handle, the menu, the scheduler and
\* its job, the channels and the handlers.
setUp == <<bot, shutdown, menuSet, cron, cronId, cronPc, cronLocal, polled,
           chan, tasks>>

\* Call s has launched nothing: no startCron goroutine, no update channel.
Unlaunched(s) == polled[s] = Nil /\ cronPc[s] = "none" /\ chan[s] = <<>>

\* C11: a Start() that finds the bot disabled, or whose authentication
\* fails, returns having changed nothing: before the authentication has
\* succeeded the call has launched nothing, the step on which it returns
\* leaves the handle, the menu, the scheduler, the channels and the handlers
\* as they were, and the returned call never launches anything later.
C11_FatalStartLeavesIdle ==
    [][\A s \in Starts :
         /\ startPc[s] \in {"ready", "init"} => Unlaunched(s)
         /\ startPc[s] \in {"ready", "init"} /\ startPc'[s] = "returned"
              => UNCHANGED setUp
         /\ startPc[s] = "returned" /\ Unlaunched(s)
              => startPc'[s] = "returned" /\ Unlaunched(s)']_vars

\* The first Start() has failed to authenticate and the session is idle.
C11_Witness ==
    /\ enabled
    /\ startPc[1] = "returned" /\ Unlaunched(1)
    /\ bot = Nil /\ ~menuSet /\ cron.entries = 0 /\ ~cron.running

\* The loop of call s takes an update from its channel on this step.
Takes(s) == startPc[s] = "loop" /\ Len(chan'[s]) < Len(chan[s])

\* C12: once the stop flag is set it stays set; an update a loop takes then
\* makes that loop return, and neither that step nor any later one, of this
\* Start() call or of a further one, dispatches a handler; the handlers
\* dispatched before are left as they are by every step of Stop().
C12_StoppedIsTerminal ==
    [][/\ stopping => stopping'
       /\ stopping => Len(tasks') <= Len(tasks)
       /\ \A s \in Starts :
            stopping /\ Takes(s) => startPc'[s] = "returned" /\ tasks' = tasks
       /\ stopPc' # stopPc => tasks' = tasks]_vars

\* Both loops have left on the flag, not on a closed channel, with a handler
\* dispatched before the flag was set.
C12_Witness ==
    /\ stopping /\ Len(tasks) > 0
    /\ \A s \in {1, 2} :
         startPc[s] = "returned" /\ polled[s] = s /\ ~shutdown[s]

\* The updates that have a handler.
Dispatchable == {u \in SessionUpdates : u.kind \in {"message", "callback"}}

\* Update u is the next one in the channel of the running loop, with n
\* handlers dispatched so far and the stop flag not set.
Awaits(u, n) ==
    /\ startPc[1] = "loop" /\ ~stopping
    /\ chan[1] # <<>> /\ Head(chan[1]) = u
    /\ Len(tasks) = n

\* The loop has dispatched update u to a handler of its own since then.
DispatchedSince(u, n) ==
    \E i \in (n + 1)..Len(tasks) : tasks[i].upd = u /\ tasks[i].by = 1

\* C13, as stated: an update delivered before the stop flag is set is
\* eventually dispatched, whatever the earlier handlers do.
C13_DeliveredIsDispatched ==
    \A u \in Dispatchable, n \in 0..MaxUpdates :
        Awaits(u, n) ~> DispatchedSince(u, n)

\* C13: with every dispatched handler blocked for ever, an update waiting
\* in the channel of the running loop is eventually dispatched to a handler
\* of its own, unless the stop flag is set before the loop takes it.
C13_DispatchedUnlessStopped ==
    \A u \in Dispatchable, n \in 0..MaxUpdates :
        Awaits(u, n) ~> (DispatchedSince(u, n) \/ stopping)

\* An update has been dispatched while the handler of an earlier one has
\* not finished.
C13_Witness ==
    /\ ~stopping /\ Len(tasks) = 2
    /\ tasks[1].state = "spawned" /\ tasks[2].state = "spawned"

\* A handler finishes on this step.
Finishes(i) ==
    /\ i \in 1..Len(tasks) /\ Len(tasks') = Len(tasks)
    /\ tasks[i].state = "spawned" /\ tasks'[i].state = "done"

\* C14: with no Stop(), nothing ends the loop or the process: a failed menu
\* registration lets Start() go on to its loop, a handler that finishes,
\* with whatever failures, leaves the loop, its channel, the handle and the
\* stop flag alone, and every message or callback the loop takes, before or
\* after such a failure, is dispatched to a new handler.
C14_NoErrorEndsTheLoop ==
    [][/\ panicked' = ""
       /\ startPc[1] = "menu" => startPc'[1] \in {"menu", "launch"}
       /\ startPc[1] = "loop" => startPc'[1] = "loop"
       /\ \A i \in 1..MaxUpdates :
            Finishes(i) => UNCHANGED <<startVars, bot, shutdown, stopping>>
       /\ Takes(1) /\ Head(chan[1]).kind \in {"message", "callback"}
            => /\ Len(tasks') = Len(tasks) + 1
               /\ tasks'[Len(tasks')].upd = Head(chan[1])]_vars

\* The menu registration failed, a handler has met a failed send and a
\* failed service, and the loop runs with another update dispatched.
C14_Witness ==
    /\ ~menuSet /\ startPc[1] = "loop" /\ Len(tasks) = 2
    /\ \E i \in 1..2 :
         /\ Done(i)
         /\ \E j \in 1..Len(tasks[i].events) :
              tasks[i].events[j].type = "send" /\ ~tasks[i].events[j].ok
         /\ \E j \in 1..Len(tasks[i].events) :
              tasks[i].events[j].type \in Services /\ ~tasks[i].events[j].ok

\* C15: with the schedule unset, a startCron goroutine that has finished
\* used the six-field default, registered the job, stored its identifier
\* and started the timer (which only a Stop() call stops again).
C15_DefaultScheduleRegisters ==
    \A s \in Starts :
        runtimeCfg = RuntimeUnset /\ cronPc[s] = "done"
          => /\ Len(DefaultRuntime) = 6
             /\ cron.entries > 0 /\ cronId > 0
             /\ cron.running \/ \E k \in Stops : stopPc[k] # "ready"

\* The order of a Start() call's positions: the enabled check, the
\* authentication, the menu registration, the launch of startCron with the
\* opening of the update channel, the loop.
StartOrder ==
    {<<"ready", "init">>, <<"ready", "returned">>, <<"init", "menu">>,
     <<"init", "returned">>, <<"menu", "launch">>, <<"launch", "loop">>,
     <<"loop", "returned">>}

\* C16: every Start() call moves through its positions in that order; it
\* passes the authentication with its handle stored and enters its loop
\* with its startCron goroutine launched and its channel open; its channel
\* receives, and gives, an update only while the call is in its loop, and
\* a handler is dispatched only by a call that is in its loop.
C16_StartOrder ==
    [][\A s \in Starts :
         /\ startPc'[s] # startPc[s] => <<startPc[s], startPc'[s]>> \in StartOrder
         /\ startPc[s] = "init" /\ startPc'[s] = "menu" => bot' = s
         /\ startPc[s] = "launch" /\ startPc'[s] = "loop"
              => cronPc'[s] = "add" /\ polled'[s] # Nil
         /\ chan'[s] # chan[s] => startPc[s] = "loop"
         /\ Len(tasks') > Len(tasks) /\ tasks'[Len(tasks')].by = s
              => startPc[s] = "loop" /\ cronPc[s] # "none"]_vars

\* The second Start() call has dispatched an update from its loop.
C16_Witness ==
    /\ startPc[2] = "loop" /\ cronPc[2] = "add" /\ polled[2] = 2
    /\ \E i \in 1..Len(tasks) : tasks[i].by = 2

\* C17: the session's scheduler holds at most one daily-report job.
C17_AtMostOneJob == cron.entries <= 1

\* Among a handler's calls: a message with this text was sent; this service
\* was called; it was called and returned no error.
Sent(ev, text) == \E j \in 1..Len(ev) : ev[j].type = "send" /\ ev[j].text = text
Called(ev, svc) == \E j \in 1..Len(ev) : ev[j].type = svc
Succeeded(ev, svc) == \E j \in 1..Len(ev) : ev[j].type = svc /\ ev[j].ok

\* C18: a finished restart handler announced the restart first and then
\* stopped the server; after a failed stop it sent the stop-failure message
\* and neither started the server nor reported anything else; after a
\* failed start it sent the start-failure message; it sent the success
\* message exactly when the stop and the start both returned no error.
C18_RestartReportsEachFailure ==
    \A i \in 1..Len(tasks) :
        LET ev == tasks[i].events
        IN  Done(i) /\ tasks[i].upd.kind = "callback"
                    /\ tasks[i].upd.data = "restart"
              => /\ Len(ev) >= 2
                 /\ IsReply(ev[1], "send", tasks[i].upd.chat, Restarting)
                 /\ ev[2].type = "WebServer.Stop"
                 /\ ~ev[2].ok
                      => /\ Sent(ev, StopFailed) /\ ~Called(ev, "WebServer.Start")
                         /\ ~Sent(ev, StartFailed) /\ ~Sent(ev, Restarted)
                 /\ ev[2].ok
                      => /\ Len(ev) >= 3 /\ ev[3].type = "WebServer.Start"
                         /\ ~Sent(ev, StopFailed)
                         /\ ~ev[3].ok => Sent(ev, StartFailed)
                 /\ Sent(ev, Restarted)
                      <=> Succeeded(ev, "WebServer.Stop")
                          /\ Succeeded(ev, "WebServer.Start")

\* A restart whose stop succeeded and whose start failed has finished.
C18_Witness ==
    \E i \in 1..Len(tasks) :
        /\ Done(i) /\ tasks[i].upd.data = "restart"
        /\ Succeeded(tasks[i].events, "WebServer.Stop")
        /\ Called(tasks[i].events, "WebServer.Start")
        /\ ~Succeeded(tasks[i].events, "WebServer.Start")
        /\ Sent(tasks[i].events, StartFailed)

\* The Start() call and Stop() call k are both under way.
Concurrent(k) ==
    /\ startPc[1] \notin {"ready", "returned"}
    /\ stopPc[k] \notin {"ready", "returned"}

\* C19: a Start() call that a Stop() call overlaps eventually returns
\* (unless the process has panicked), whether or not another update
\* arrives.
C19_StartReturnsAfterStop ==
    \A k \in Stops :
        Concurrent(k) ~> (startPc[1] = "returned" \/ panicked # "")

\* C20: every message a finished handler sent, with or without the menu's
\* keyboard, is addressed to the chat of the update it handled.
C20_RepliesGoToTheOriginatingChat ==
    \A i \in 1..Len(tasks) :
        Done(i) =>
            \A j \in 1..Len(tasks[i].events) :
                tasks[i].events[j].type \in {"send", "menu"}
                  => tasks[i].events[j].chat = tasks[i].upd.chat

\* A handler for chat 9 has sent its messages while a handler for chat 1
\* is dispatched and has not run yet.
C20_Witness ==
    /\ Len(tasks) = 2
    /\ \E i, k \in 1..2 :
         /\ Done(i) /\ tasks[i].upd.chat = 9
         /\ Sent(tasks[i].events, Clearing) /\ Sent(tasks[i].events, Cleared)
         /\ tasks[k].state = "spawned" /\ tasks[k].upd.chat = 1

====
